---- MODULE Spec2Model ----
(***************************************************************************)
(* Model of the game simulation of space_invaders.c: the event handlers of *)
(* the SDL event loop (key down / key up), resetGame, and the per-frame    *)
(* update logic of main (player motion, bullet motion, formation step,     *)
(* bullet-alien collision, row-reached check, victory check).              *)
(*                                                                         *)
(* The playfield is explored at a reduced scale: the geometry definitions  *)
(* below keep the names of the source's #defines but carry small values so *)
(* that every behaviour of the game (all interleavings of key events and   *)
(* frames) can be enumerated.  The source values are noted beside each.    *)
(* The reduced geometry keeps the relations of the source geometry that    *)
(* the game's behaviour depends on:                                        *)
(*   - the initial formation fits in the window (50 + 7*50 + 32 <= 640);   *)
(*   - ALIEN_SPACING - ALIEN_WIDTH >= BULLET_WIDTH (a bullet fits between  *)
(*     two aliens and cannot overlap two of them): 50 - 32 >= 4;           *)
(*   - BULLET_SPEED < BULLET_HEIGHT + ALIEN_HEIGHT (a bullet cannot jump   *)
(*     over an alien): 7 < 10 + 32;                                        *)
(*   - the formation descends at least once before a descent brings it to  *)
(*     the player's row, and an alien that has just reached that row still *)
(*     overlaps a freshly fired bullet (390 < 408 - 7, 390 + 32 >= 408).   *)
(*   - the number of descents that brings the formation to the player's   *)
(*     row is odd (17 in the source, 3 here), so the direction at a wave   *)
(*     reset is -1, not the +1 of a fresh game.                            *)
(***************************************************************************)
EXTENDS Integers, FiniteSets

\* ------------------ Window Settings ------------------
WINDOW_WIDTH == 6      \* source: 640
WINDOW_HEIGHT == 11     \* source: 480

\* ------------------ Player Settings ------------------
PLAYER_SPEED == 2       \* source: 5
PLAYER_WIDTH == 2       \* source: 32
PLAYER_HEIGHT == 2      \* source: 32
PLAYER_MARGIN == 1      \* source: the literal 40 of player.y
PLAYER_LIVES == 3

\* ------------------ Bullet Settings ------------------
BULLET_SPEED == 3       \* source: 7
BULLET_WIDTH == 1       \* source: 4
BULLET_HEIGHT == 2      \* source: 10
MAX_BULLETS == 2        \* source: 5

\* ------------------ Alien Settings -------------------
ALIEN_COUNT == 2        \* source: 8
ALIEN_WIDTH == 2        \* source: 32
ALIEN_HEIGHT == 5       \* source: 32
ALIEN_START_X == 0      \* source: 50
ALIEN_START_Y == 0      \* source: 50
ALIEN_SPACING == 3      \* source: 50
ALIEN_SPEED == 1
ALIEN_DESCENT == 1      \* source: 20
KILL_SCORE == 10

BulletIdx == 0 .. (MAX_BULLETS - 1)
AlienIdx == 0 .. (ALIEN_COUNT - 1)

\* ------------------ Game state ------------------------
VARIABLES gGameOver, gLives, gScore, gAlienMoveDir, player, bullets, aliens

vars == <<gGameOver, gLives, gScore, gAlienMoveDir, player, bullets, aliens>>

\* ------------------ Collision Check -------------------
\* variant: rectangles that touch along an edge collide
rect_collideTouching(x1, y1, w1, h1, x2, y2, w2, h2) ==
    (x1 <= x2 + w2) /\ (x1 + w1 >= x2) /\ (y1 <= y2 + h2) /\ (y1 + h1 >= y2)

rect_collide(x1, y1, w1, h1, x2, y2, w2, h2) ==
    (x1 < x2 + w2) /\ (x1 + w1 > x2) /\ (y1 < y2 + h2) /\ (y1 + h1 > y2)

\* ------------------ Construction ----------------------
InitPlayer ==
    [x |-> (WINDOW_WIDTH - PLAYER_WIDTH) \div 2,
     y |-> WINDOW_HEIGHT - (PLAYER_HEIGHT + PLAYER_MARGIN),
     w |-> PLAYER_WIDTH, h |-> PLAYER_HEIGHT, vx |-> 0]

InitBullets ==
    [i \in BulletIdx |->
        [x |-> 0, y |-> 0, w |-> BULLET_WIDTH, h |-> BULLET_HEIGHT, active |-> FALSE]]

InitAliens ==
    [i \in AlienIdx |->
        [x |-> ALIEN_START_X + i * ALIEN_SPACING, y |-> ALIEN_START_Y,
         w |-> ALIEN_WIDTH, h |-> ALIEN_HEIGHT, active |-> TRUE]]

Init ==
    /\ gGameOver = FALSE
    /\ gLives = PLAYER_LIVES
    /\ gScore = 0
    /\ gAlienMoveDir = 1
    /\ player = InitPlayer
    /\ bullets = InitBullets
    /\ aliens = InitAliens

\* ------------------ Game Reset Function ----------------
\* variant: the reset forgets the formation's direction
resetGameKeepsDir ==
    /\ gLives' = PLAYER_LIVES
    /\ gScore' = 0
    /\ gGameOver' = FALSE
    /\ gAlienMoveDir' = gAlienMoveDir
    /\ player' = InitPlayer
    /\ bullets' = InitBullets
    /\ aliens' = InitAliens

resetGame ==
    /\ gLives' = PLAYER_LIVES
    /\ gScore' = 0
    /\ gGameOver' = FALSE
    /\ gAlienMoveDir' = 1
    /\ player' = [player EXCEPT
                    !.w = PLAYER_WIDTH, !.h = PLAYER_HEIGHT,
                    !.x = (WINDOW_WIDTH - PLAYER_WIDTH) \div 2,
                    !.y = WINDOW_HEIGHT - (PLAYER_HEIGHT + PLAYER_MARGIN),
                    !.vx = 0]
    /\ bullets' = [i \in BulletIdx |->
                    [bullets[i] EXCEPT !.active = FALSE, !.x = 0, !.y = 0,
                                       !.w = BULLET_WIDTH, !.h = BULLET_HEIGHT]]
    /\ aliens' = [i \in AlienIdx |->
                    [aliens[i] EXCEPT !.active = TRUE,
                                      !.w = ALIEN_WIDTH, !.h = ALIEN_HEIGHT,
                                      !.x = ALIEN_START_X + i * ALIEN_SPACING,
                                      !.y = ALIEN_START_Y]]

\* ------------------ Events: SDL_KEYDOWN ----------------
KeyDownLeft ==
    /\ player' = [player EXCEPT !.vx = -PLAYER_SPEED]
    /\ UNCHANGED <<gGameOver, gLives, gScore, gAlienMoveDir, bullets, aliens>>

KeyDownRight ==
    /\ player' = [player EXCEPT !.vx = PLAYER_SPEED]
    /\ UNCHANGED <<gGameOver, gLives, gScore, gAlienMoveDir, bullets, aliens>>

\* the slots a fire could take: the loop takes the first one
FreeSlots(bs) == {i \in BulletIdx : ~bs[i].active}

\* variant: the fire loop takes the last free slot
LastFree(bs) == CHOOSE i \in FreeSlots(bs) : \A j \in FreeSlots(bs) : i >= j

FirstFree(bs) == CHOOSE i \in FreeSlots(bs) : \A j \in FreeSlots(bs) : i <= j

\* variant: with no free slot the fire reuses slot 0
FireBulletsOverwrite(bs, p) ==
    LET i == IF FreeSlots(bs) = {} THEN 0 ELSE FirstFree(bs) IN
    [bs EXCEPT ![i] = [bs[i] EXCEPT !.active = TRUE,
                                    !.x = p.x + (p.w \div 2) - (bs[i].w \div 2),
                                    !.y = p.y - bs[i].h]]

FireBullets(bs, p) ==
    IF FreeSlots(bs) = {} THEN bs
    ELSE LET i == FirstFree(bs) IN
         [bs EXCEPT ![i] = [bs[i] EXCEPT !.active = TRUE,
                                         !.x = p.x + (p.w \div 2) - (bs[i].w \div 2),
                                         !.y = p.y - bs[i].h]]

KeyDownSpace ==
    /\ bullets' = IF ~gGameOver THEN FireBullets(bullets, player) ELSE bullets
    /\ UNCHANGED <<gGameOver, gLives, gScore, gAlienMoveDir, player, aliens>>

\* variant: the R key resets the game at any time
KeyDownRAlways == resetGame

KeyDownR ==
    IF gGameOver THEN resetGame ELSE UNCHANGED vars

\* ------------------ Events: SDL_KEYUP ------------------
\* variant: releasing the left key always stops the player
KeyUpLeftAlways ==
    /\ player' = [player EXCEPT !.vx = 0]
    /\ UNCHANGED <<gGameOver, gLives, gScore, gAlienMoveDir, bullets, aliens>>

KeyUpLeft ==
    /\ player' = IF player.vx < 0 THEN [player EXCEPT !.vx = 0] ELSE player
    /\ UNCHANGED <<gGameOver, gLives, gScore, gAlienMoveDir, bullets, aliens>>

KeyUpRight ==
    /\ player' = IF player.vx > 0 THEN [player EXCEPT !.vx = 0] ELSE player
    /\ UNCHANGED <<gGameOver, gLives, gScore, gAlienMoveDir, bullets, aliens>>

\* ------------------ Update Logic (one frame) -----------
\* variant: the right edge is not clamped
MovePlayerNoRightClamp(p) ==
    LET x1 == p.x + p.vx
    IN  [p EXCEPT !.x = IF x1 < 0 THEN 0 ELSE x1]

\* Move player
MovePlayer(p) ==
    LET x1 == p.x + p.vx
        x2 == IF x1 < 0 THEN 0 ELSE x1
        x3 == IF x2 + p.w > WINDOW_WIDTH THEN WINDOW_WIDTH - p.w ELSE x2
    IN  [p EXCEPT !.x = x3]

\* variant: a bullet that leaves the screen keeps flying
UpdateBulletsNoCull(bs) ==
    [i \in BulletIdx |->
        IF bs[i].active THEN [bs[i] EXCEPT !.y = @ - BULLET_SPEED] ELSE bs[i]]

\* Update bullets
UpdateBullets(bs) ==
    [i \in BulletIdx |->
        IF bs[i].active
        THEN LET y1 == bs[i].y - BULLET_SPEED
             IN  [bs[i] EXCEPT !.y = y1,
                               !.active = ~(y1 + bs[i].h < 0)]
        ELSE bs[i]]

\* variant: only the first alien is tested against the screen edges
NeedDescendFirstOnly(al, dir) ==
    /\ al[0].active
    /\ LET newX == al[0].x + ALIEN_SPEED * dir
       IN  newX < 0 \/ newX + al[0].w > WINDOW_WIDTH

\* Check if aliens need to descend
NeedDescend(al, dir) ==
    \E i \in AlienIdx :
        /\ al[i].active
        /\ LET newX == al[i].x + ALIEN_SPEED * dir
           IN  newX < 0 \/ newX + al[i].w > WINDOW_WIDTH

\* variant: a descending formation also takes its horizontal step
MoveAliensDescendAndShift(al, dir) ==
    [i \in AlienIdx |->
        IF ~al[i].active THEN al[i]
        ELSE IF NeedDescend(al, dir)
             THEN [al[i] EXCEPT !.y = @ + ALIEN_DESCENT, !.x = @ + ALIEN_SPEED * dir]
             ELSE [al[i] EXCEPT !.x = @ + ALIEN_SPEED * dir]]

\* variant: only the aliens that would leave the screen descend
MoveAliensOffendersOnly(al, dir) ==
    IF NeedDescend(al, dir)
    THEN [i \in AlienIdx |->
            LET newX == al[i].x + ALIEN_SPEED * dir IN
            IF al[i].active /\ (newX < 0 \/ newX + al[i].w > WINDOW_WIDTH)
            THEN [al[i] EXCEPT !.y = @ + ALIEN_DESCENT] ELSE al[i]]
    ELSE [i \in AlienIdx |->
            IF al[i].active THEN [al[i] EXCEPT !.x = @ + ALIEN_SPEED * dir] ELSE al[i]]

\* variant: each alien descends or shifts on its own boundary test
MoveAliensPerAlien(al, dir) ==
    [i \in AlienIdx |->
        LET newX == al[i].x + ALIEN_SPEED * dir IN
        IF ~al[i].active THEN al[i]
        ELSE IF newX < 0 \/ newX + al[i].w > WINDOW_WIDTH
             THEN [al[i] EXCEPT !.y = @ + ALIEN_DESCENT]
             ELSE [al[i] EXCEPT !.x = newX]]

\* variant: at a screen edge the formation turns without descending
MoveAliensNoDescent(al, dir) ==
    IF NeedDescend(al, dir)
    THEN al
    ELSE [i \in AlienIdx |->
            IF al[i].active THEN [al[i] EXCEPT !.x = @ + ALIEN_SPEED * dir] ELSE al[i]]

\* Descend, or move aliens horizontally
MoveAliens(al, dir) ==
    IF NeedDescend(al, dir)
    THEN [i \in AlienIdx |->
            IF al[i].active THEN [al[i] EXCEPT !.y = @ + ALIEN_DESCENT] ELSE al[i]]
    ELSE [i \in AlienIdx |->
            IF al[i].active THEN [al[i] EXCEPT !.x = @ + ALIEN_SPEED * dir] ELSE al[i]]

MoveDir(al, dir) == IF NeedDescend(al, dir) THEN -dir ELSE dir

\* variant: the collision scan does not skip inactive aliens
HitsInactiveToo(bl, al) ==
    {i \in AlienIdx :
        rect_collide(bl.x, bl.y, bl.w, bl.h, al[i].x, al[i].y, al[i].w, al[i].h)}

\* Collision: bullet vs. aliens
Hits(bl, al) ==
    {i \in AlienIdx :
        /\ al[i].active
        /\ rect_collide(bl.x, bl.y, bl.w, bl.h, al[i].x, al[i].y, al[i].w, al[i].h)}

FirstHit(bl, al) == CHOOSE i \in Hits(bl, al) : \A j \in Hits(bl, al) : i <= j

\* variant: a kill awards no score
CollideOneNoScore(b, st) ==
    IF st.bullets[b].active /\ Hits(st.bullets[b], st.aliens) # {}
    THEN LET i == FirstHit(st.bullets[b], st.aliens)
         IN  [bullets |-> [st.bullets EXCEPT ![b].active = FALSE],
              aliens  |-> [st.aliens EXCEPT ![i].active = FALSE],
              score   |-> st.score]
    ELSE st

\* variant: a bullet goes on after its kill
CollideOneKeepsBullet(b, st) ==
    IF st.bullets[b].active /\ Hits(st.bullets[b], st.aliens) # {}
    THEN LET i == FirstHit(st.bullets[b], st.aliens)
         IN  [bullets |-> st.bullets,
              aliens  |-> [st.aliens EXCEPT ![i].active = FALSE],
              score   |-> st.score + KILL_SCORE]
    ELSE st

CollideOne(b, st) ==
    IF st.bullets[b].active /\ Hits(st.bullets[b], st.aliens) # {}
    THEN LET i == FirstHit(st.bullets[b], st.aliens)
         IN  [bullets |-> [st.bullets EXCEPT ![b].active = FALSE],
              aliens  |-> [st.aliens EXCEPT ![i].active = FALSE],
              score   |-> st.score + KILL_SCORE]
    ELSE st

RECURSIVE CollideFrom(_, _)
CollideFrom(b, st) ==
    IF b >= MAX_BULLETS THEN st ELSE CollideFrom(b + 1, CollideOne(b, st))

Collide(bs, al, sc) == CollideFrom(0, [bullets |-> bs, aliens |-> al, score |-> sc])

\* variant: the row check does not skip inactive aliens
RowReachedInactiveToo(al, p) ==
    \E i \in AlienIdx : al[i].y + al[i].h >= p.y

\* Check if aliens reached bottom
RowReached(al, p) ==
    \E i \in AlienIdx : al[i].active /\ al[i].y + al[i].h >= p.y

\* Reset aliens & bullets (lives remain)
WaveAliens(al) ==
    [a \in AlienIdx |->
        [al[a] EXCEPT !.active = TRUE,
                      !.x = ALIEN_START_X + a * ALIEN_SPACING,
                      !.y = ALIEN_START_Y]]

\* variant: the wave reset leaves the bullets flying
WaveBulletsKept(bs) == bs

WaveBullets(bs) == [b \in BulletIdx |-> [bs[b] EXCEPT !.active = FALSE]]

\* variant: no break, one life per alien at the row
LivesAfterNoBreak(al, p, l) ==
    l - Cardinality({i \in AlienIdx : al[i].active /\ al[i].y + al[i].h >= p.y})

\* "gLives--" on the first active alien found at the player's row, then break
LivesAfter(al, p, l) == IF RowReached(al, p) THEN l - 1 ELSE l

\* variant: the game ends one life early
LivesExhaustedEarly(l) == l <= 1

\* variant: the game ends only below zero lives
LivesExhaustedLate(l) == l < 0

\* "if (gLives <= 0)"
LivesExhausted(l) == l <= 0

\* the frame state after the "if (!gGameOver)" block
UpdateLogic ==
    LET p1   == MovePlayer(player)
        b1   == UpdateBullets(bullets)
        a1   == MoveAliens(aliens, gAlienMoveDir)
        d1   == MoveDir(aliens, gAlienMoveDir)
        c    == Collide(b1, a1, gScore)
        hit  == RowReached(c.aliens, p1)
        l1   == LivesAfter(c.aliens, p1, gLives)
        over == hit /\ LivesExhausted(l1)
        wave == hit /\ ~LivesExhausted(l1)
    IN  [gameOver |-> over,
         lives    |-> l1,
         score    |-> c.score,
         dir      |-> d1,
         player   |-> p1,
         bullets  |-> IF wave THEN WaveBullets(c.bullets) ELSE c.bullets,
         aliens   |-> IF wave THEN WaveAliens(c.aliens) ELSE c.aliens]

\* variant: the player still moves on the game-over screen
FrozenMovesPlayer ==
    [gameOver |-> gGameOver, lives |-> gLives, score |-> gScore,
     dir |-> gAlienMoveDir, player |-> MovePlayer(player), bullets |-> bullets,
     aliens |-> aliens]

\* the frame state when the "if (!gGameOver)" block is skipped
Frozen ==
    [gameOver |-> gGameOver, lives |-> gLives, score |-> gScore,
     dir |-> gAlienMoveDir, player |-> player, bullets |-> bullets,
     aliens |-> aliens]

\* Check if all aliens are dead
AllAliensDead(al) == \A i \in AlienIdx : ~al[i].active

\* "if (allAliensDead && !gGameOver) gGameOver = true"
VictoryCheck(al, over) == IF AllAliensDead(al) /\ ~over THEN TRUE ELSE over

\* One iteration of the main loop after its events: update logic, victory check
Tick ==
    LET u == IF ~gGameOver THEN UpdateLogic ELSE Frozen
    IN  /\ gGameOver' = VictoryCheck(u.aliens, u.gameOver)
        /\ gLives' = u.lives
        /\ gScore' = u.score
        /\ gAlienMoveDir' = u.dir
        /\ player' = u.player
        /\ bullets' = u.bullets
        /\ aliens' = u.aliens

\* the message drawn when gGameOver
Message == IF AllAliensDead(aliens) /\ gLives > 0 THEN "Victory!" ELSE "Game Over!"

Next ==
    \/ KeyDownLeft
    \/ KeyDownRight
    \/ KeyDownSpace
    \/ KeyDownR
    \/ KeyUpLeft
    \/ KeyUpRight
    \/ Tick

Spec == Init /\ [][Next]_vars

\* Frames keep coming: the main loop runs Tick in every iteration.  This is
\* weak fairness of Tick, written out: a frame changes the state exactly in
\* play (the update block is skipped on the game-over screen), so
\* <<Tick>>_vars is enabled exactly when gGameOver is false.
FairSpec == Spec /\ (([]<>gGameOver) \/ ([]<><<Tick>>_vars))

\* the games in which the player never fires, so that no alien is ever
\* destroyed; frames keep coming: the main loop runs its update every iteration
NoFireNext ==
    \/ KeyDownLeft
    \/ KeyDownRight
    \/ KeyDownR
    \/ KeyUpLeft
    \/ KeyUpRight
    \/ Tick

NoFireSpec == Init /\ [][NoFireNext]_vars /\ WF_vars(Tick)

\* ------------------ rect_collide on arbitrary rectangles
\* the rectangles handed to rect_collide: corner in 0 .. RECT_MAX_COORD,
\* sides in 1 .. RECT_MAX_SIZE
RECT_MAX_COORD == 3
RECT_MAX_SIZE == 2

Rects ==
    [x : 0 .. RECT_MAX_COORD, y : 0 .. RECT_MAX_COORD,
     w : 1 .. RECT_MAX_SIZE, h : 1 .. RECT_MAX_SIZE]

\* one bullet and one alien in flight, each on any rectangle of Rects
RectInit ==
    /\ gGameOver = FALSE
    /\ gLives = PLAYER_LIVES
    /\ gScore = 0
    /\ gAlienMoveDir = 1
    /\ player = InitPlayer
    /\ \E r \in Rects :
          bullets = [i \in BulletIdx |->
                        IF i = 0
                        THEN [x |-> r.x, y |-> r.y, w |-> r.w, h |-> r.h, active |-> TRUE]
                        ELSE InitBullets[i]]
    /\ \E r \in Rects :
          aliens = [i \in AlienIdx |->
                        IF i = 0
                        THEN [x |-> r.x, y |-> r.y, w |-> r.w, h |-> r.h, active |-> TRUE]
                        ELSE [InitAliens[i] EXCEPT !.active = FALSE]]

\* the collision loop of a frame, on the rectangles as they stand
CollisionStep ==
    /\ bullets' = Collide(bullets, aliens, gScore).bullets
    /\ aliens' = Collide(bullets, aliens, gScore).aliens
    /\ gScore' = Collide(bullets, aliens, gScore).score
    /\ UNCHANGED <<gGameOver, gLives, gAlienMoveDir, player>>

RectSpec == RectInit /\ [][CollisionStep]_vars

\* ------------------ Outcomes and frame quantities -----
SomeAlienActive == \E i \in AlienIdx : aliens[i].active

Defeat == gLives = 0 /\ SomeAlienActive

Victory == gLives > 0 /\ AllAliensDead(aliens)

ActiveBullets == {b \in BulletIdx : bullets[b].active}

\* a frame of play: the update logic runs
PlayTick == ~gGameOver /\ Tick

\* the R key pressed on the game-over screen
RestartStep == gGameOver /\ KeyDownR

\* the aliens after this frame's formation step, and after its collisions
MovedAliens == MoveAliens(aliens, gAlienMoveDir)

CollidedAliens == Collide(UpdateBullets(bullets), MovedAliens, gScore).aliens

\* the aliens a bullet deactivates in this frame
KilledThisTick == {i \in AlienIdx : MovedAliens[i].active /\ ~CollidedAliens[i].active}

\* the aliens found at the player's row by this frame's row check
AtRowThisTick ==
    {i \in AlienIdx :
        /\ CollidedAliens[i].active
        /\ CollidedAliens[i].y + CollidedAliens[i].h >= MovePlayer(player).y}

\* ------------------ C1 ---------------------------------
\* C1: whenever game-over is true exactly one terminal outcome holds: defeat
\* (lives = 0, some alien active) or victory (lives > 0, no alien active);
\* never both, and never game-over with lives > 0 and an alien active.  The
\* drawn message agrees with the outcome.
C1_Outcome ==
    gGameOver =>
        /\ Defeat \/ Victory
        /\ ~(Defeat /\ Victory)
        /\ ~(gLives > 0 /\ SomeAlienActive)
        /\ (Message = "Victory!") <=> Victory

C1_Witness == gGameOver /\ Defeat /\ gScore > 0

\* ------------------ C2 ---------------------------------
AtStart ==
    /\ gGameOver = FALSE
    /\ gLives = PLAYER_LIVES
    /\ gScore = 0
    /\ gAlienMoveDir = 1
    /\ player = InitPlayer
    /\ bullets = InitBullets
    /\ aliens = InitAliens

\* C2: restart from any game-over state (victory or defeat) yields the state
\* of process start: score 0, full lives, direction +1, player centered with
\* velocity 0, every bullet inactive, every alien active on its start cell.
C2_RestartDeterminism == [][RestartStep => AtStart']_vars

\* a game-over state in which every part of the state differs from the start
C2_Witness ==
    /\ gGameOver
    /\ gScore > 0
    /\ gLives < PLAYER_LIVES
    /\ gAlienMoveDir = -1
    /\ player.x # InitPlayer.x /\ player.vx # 0
    /\ ActiveBullets # {}
    /\ \E i \in AlienIdx : ~aliens[i].active

\* ------------------ C3 ---------------------------------
\* C3: at most MAX_BULLETS bullets are active, and a fire input while every
\* slot is active changes nothing at all.
C3_BulletPool ==
    /\ [](Cardinality(ActiveBullets) <= MAX_BULLETS)
    /\ [][(ActiveBullets = BulletIdx /\ KeyDownSpace) => UNCHANGED vars]_vars

\* the pool is full during play, and its bullets are not all in one place
C3_Witness ==
    /\ ~gGameOver
    /\ ActiveBullets = BulletIdx
    /\ \E a, b \in BulletIdx : bullets[a].y # bullets[b].y

\* ------------------ C4 ---------------------------------
\* C4: the player's rectangle is always inside the screen width.
C4_BoundaryClamp == 0 <= player.x /\ player.x <= WINDOW_WIDTH - PLAYER_WIDTH

\* the player pushes against the right edge and is held on it
C4_Witness == player.x = WINDOW_WIDTH - PLAYER_WIDTH /\ player.vx > 0 /\ ~gGameOver

\* ------------------ C5 ---------------------------------
\* C5: in every frame of play the score grows by exactly KILL_SCORE times the
\* number of aliens a bullet deactivates in that frame; no input during play
\* and no frame on the game-over screen changes it (restart begins a new game
\* at score 0); the score is always a non-negative multiple of KILL_SCORE.
C5_ScoreMonotonic ==
    /\ [](gScore >= 0 /\ gScore % KILL_SCORE = 0)
    /\ [][/\ PlayTick => gScore' = gScore + KILL_SCORE * Cardinality(KilledThisTick)
          /\ ~RestartStep => gScore' >= gScore
          /\ (~PlayTick /\ ~RestartStep) => gScore' = gScore]_vars

\* aliens have been destroyed in two different waves
C5_Witness == gScore = 2 * KILL_SCORE /\ SomeAlienActive /\ gLives < PLAYER_LIVES

\* ------------------ C6 ---------------------------------
\* C6: one frame takes at most one life, however many aliens are at the
\* player's row, and lives stays within 0 .. PLAYER_LIVES.
C6_LifeLoss ==
    /\ [](gLives \in 0 .. PLAYER_LIVES)
    /\ [][PlayTick => /\ gLives' >= gLives - 1
                      /\ gLives' <= gLives
                      /\ (Cardinality(AtRowThisTick) >= 1 => gLives' = gLives - 1)]_vars

\* the last life was taken in a frame with every alien at the player's row
C6_Witness ==
    /\ gLives = 0
    /\ \A i \in AlienIdx : aliens[i].active /\ aliens[i].y + aliens[i].h >= player.y

\* ------------------ C7 ---------------------------------
\* this frame's boundary check finds an active alien about to leave the screen
DescentTick == PlayTick /\ NeedDescend(aliens, gAlienMoveDir)

\* every alien keeps its x, every active alien goes down by ALIEN_DESCENT
DescentEffect ==
    /\ \A i \in AlienIdx : aliens'[i].x = aliens[i].x
    /\ \A i \in AlienIdx : aliens[i].active => aliens'[i].y = aliens[i].y + ALIEN_DESCENT

\* the frame took a life and lives remain: the wave was reset
WaveResetStep == gLives' = gLives - 1 /\ gLives' > 0

C8_FormationCoherence ==
    /\ \A i, j \in AlienIdx :
          (aliens[i].active /\ aliens[j].active) => aliens[i].y = aliens[j].y
    /\ ~gGameOver =>
          \A i \in AlienIdx :
              /\ CollidedAliens[i].y = MovedAliens[i].y
              /\ CollidedAliens[i].x = MovedAliens[i].x

\* an alien was killed on an upper row and the rest of the formation went on
C8_Witness ==
    /\ ~gGameOver
    /\ \E i, j \in AlienIdx :
          /\ ~aliens[i].active /\ aliens[j].active
          /\ aliens[j].y > aliens[i].y

\* ------------------ C9 ---------------------------------
\* C9: the frame in which the last active alien is destroyed ends with
\* game-over true and lives unchanged and positive, also when that alien had
\* reached the player's row in that frame.
C9_Victory ==
    [][(~gGameOver /\ SomeAlienActive /\ AllAliensDead(aliens'))
          => (gGameOver' /\ gLives' = gLives /\ gLives' > 0)]_vars

\* victory, the last alien destroyed on the player's row
C9_Witness ==
    /\ gGameOver /\ Victory
    /\ \E i \in AlienIdx : aliens[i].y + aliens[i].h >= player.y

\* ------------------ C10 --------------------------------
\* C10: a frame in which an active alien's bottom edge reaches or passes the
\* player's top edge ends with game-over true and the "Game Over!" outcome.
C10_GameOverOnRowReach ==
    [][(PlayTick /\ AtRowThisTick # {})
          => (gGameOver' /\ ~(AllAliensDead(aliens') /\ gLives' > 0))]_vars

C13_RestartGuard ==
    /\ [][(~gGameOver /\ KeyDownR) => UNCHANGED vars]_vars
    /\ [][(gGameOver /\ KeyDownR) => AtStart']_vars

\* a game under way that a reset would visibly change
C13_Witness ==
    /\ ~gGameOver
    /\ gScore > 0 /\ gLives < PLAYER_LIVES /\ gAlienMoveDir = -1
    /\ ActiveBullets # {}

\* ------------------ C14 --------------------------------
\* the slot a fire takes and the cell it puts the bullet on
LowestFree(i) == ~bullets[i].active /\ \A j \in BulletIdx : j < i => bullets[j].active

\* C14: a fire input on the game-over screen changes nothing; during play,
\* with a free slot, it activates the lowest-indexed inactive slot at
\* x = player.x + PLAYER_WIDTH/2 - BULLET_WIDTH/2, y = player.y - BULLET_HEIGHT
\* and changes no other bullet, no alien, nor score, lives or player.
C14_Fire ==
    [][KeyDownSpace =>
          /\ gGameOver => UNCHANGED vars
          /\ UNCHANGED <<gGameOver, gLives, gScore, gAlienMoveDir, player, aliens>>
          /\ ~gGameOver =>
                \A i \in BulletIdx :
                    IF LowestFree(i)
                    THEN /\ bullets'[i].active
                         /\ bullets'[i].x = player.x + (PLAYER_WIDTH \div 2) - (BULLET_WIDTH \div 2)
                         /\ bullets'[i].y = player.y - BULLET_HEIGHT
                         /\ bullets'[i].w = BULLET_WIDTH /\ bullets'[i].h = BULLET_HEIGHT
                    ELSE bullets'[i] = bullets[i]]_vars

\* slot 1 has just been fired while the bullet of slot 0 is in flight
C14_Witness ==
    /\ ~gGameOver
    /\ bullets[0].active /\ bullets[MAX_BULLETS - 1].active
    /\ bullets[MAX_BULLETS - 1].y = player.y - BULLET_HEIGHT
    /\ bullets[0].y < bullets[MAX_BULLETS - 1].y

\* ------------------ C15 --------------------------------
\* C15: a frame on the game-over screen changes nothing (player, bullets,
\* aliens, score, lives, direction; gGameOver stays true), and gGameOver goes
\* from true to false only by the R key.
C15_GameOverFreeze ==
    /\ [][(gGameOver /\ Tick) => UNCHANGED vars]_vars
    /\ [][(gGameOver /\ ~gGameOver') => KeyDownR]_vars

\* a game-over screen on which a frame of play would move player and bullet
C15_Witness ==
    /\ gGameOver
    /\ player.vx > 0 /\ player.x + player.w < WINDOW_WIDTH
    /\ \E b \in ActiveBullets : bullets[b].y > 0

MovedBullets == UpdateBullets(bullets)

CollidedBullets == Collide(MovedBullets, MovedAliens, gScore).bullets

\* the bullets in flight when the collision loop starts
FlyingThisTick == {b \in BulletIdx : MovedBullets[b].active}

\* the bullets a collision deactivates in this frame
SpentThisTick == {b \in FlyingThisTick : ~CollidedBullets[b].active}

\* the aliens, active after the formation step, that bullet b overlaps
Overlaps(b) == Hits(MovedBullets[b], MovedAliens)

\* the aliens bullet b overlaps that no bullet scanned before b overlaps
FreshOverlaps(b) ==
    {i \in Overlaps(b) : \A c \in FlyingThisTick : c < b => i \notin Overlaps(c)}

\* C17: in a frame's collision loop every spent bullet destroys exactly one
\* alien it overlaps and every destroyed alien is destroyed by exactly one
\* bullet; a bullet overlapping no active alien stays active; a bullet
\* overlapping an alien that is still active when the bullet is scanned is
\* deactivated together with the lowest-indexed such alien; a bullet stays
\* active over an alien only when a bullet scanned before it destroyed that
\* alien.  The frame ends with exactly these bullets and aliens deactivated
\* unless the wave is reset.
C17_CollisionResolution ==
    /\ [](~gGameOver =>
            /\ \E f \in [SpentThisTick -> KilledThisTick] :
                  /\ \A b \in SpentThisTick : f[b] \in Overlaps(b)
                  /\ \A b, c \in SpentThisTick : f[b] = f[c] => b = c
                  /\ \A i \in KilledThisTick : \E b \in SpentThisTick : f[b] = i
            /\ \A b \in FlyingThisTick :
                  /\ Overlaps(b) = {} => b \notin SpentThisTick
                  /\ FreshOverlaps(b) # {} =>
                        /\ b \in SpentThisTick
                        /\ \E i \in Overlaps(b) :
                              /\ i \in KilledThisTick
                              /\ \A j \in FreshOverlaps(b) : i <= j
                  /\ b \notin SpentThisTick =>
                        \A i \in Overlaps(b) :
                            \E c \in SpentThisTick : c < b /\ i \in Overlaps(c)
            /\ \A b \in BulletIdx :
                  CollidedBullets[b] = [MovedBullets[b] EXCEPT !.active = b \in FlyingThisTick \ SpentThisTick]
            /\ \A i \in AlienIdx :
                  CollidedAliens[i] = [MovedAliens[i] EXCEPT !.active = aliens[i].active /\ i \notin KilledThisTick])
    /\ [][(PlayTick /\ AtRowThisTick = {}) =>
              (bullets' = CollidedBullets /\ aliens' = CollidedAliens)]_vars

\* two bullets met one alien in a frame: the first was spent on it, the second
\* flies on over the dead alien
C17_Witness ==
    /\ ~gGameOver
    /\ ~bullets[0].active /\ bullets[1].active
    /\ bullets[0].x = bullets[1].x /\ bullets[0].y = bullets[1].y
    /\ \E i \in AlienIdx :
          /\ ~aliens[i].active
          /\ rect_collide(bullets[1].x, bullets[1].y, bullets[1].w, bullets[1].h,
                          aliens[i].x, aliens[i].y, aliens[i].w, aliens[i].h)

\* ------------------ C18 --------------------------------
\* the formation as set up fits in the window
InitFits ==
    /\ ALIEN_START_X >= 0
    /\ ALIEN_START_X + (ALIEN_COUNT - 1) * ALIEN_SPACING + ALIEN_WIDTH <= WINDOW_WIDTH

\* C18: with a formation that starts inside the window, every active alien
\* is always inside it horizontally (0 <= x, x + w <= WINDOW_WIDTH), and a
\* frame's formation step changes an x only when no active alien's
\* prospective x leaves the window.
C18_FormationOnScreen ==
    InitFits =>
        /\ \A i \in AlienIdx :
              aliens[i].active =>
                  (0 <= aliens[i].x /\ aliens[i].x + aliens[i].w <= WINDOW_WIDTH)
        /\ (~gGameOver /\ \E i \in AlienIdx : MovedAliens[i].x # aliens[i].x) =>
              \A i \in AlienIdx :
                  aliens[i].active =>
                      /\ 0 <= aliens[i].x + ALIEN_SPEED * gAlienMoveDir
                      /\ aliens[i].x + ALIEN_SPEED * gAlienMoveDir + aliens[i].w <= WINDOW_WIDTH

\* the formation has touched the right edge and descended instead of leaving
C18_Witness ==
    /\ ~gGameOver
    /\ gAlienMoveDir = -1
    /\ \A i \in AlienIdx : aliens[i].active /\ aliens[i].y = ALIEN_START_Y + ALIEN_DESCENT
    /\ \E i \in AlienIdx : aliens[i].x + aliens[i].w = WINDOW_WIDTH

\* ------------------ C19 --------------------------------
\* C19: any two active aliens i < j are ALIEN_SPACING * (j - i) apart in x,
\* so no two active aliens overlap, and a bullet overlaps at most one active
\* alien, in every state and at every frame's collision scan.
C19_RigidFormation ==
    /\ \A i, j \in AlienIdx :
          (i < j /\ aliens[i].active /\ aliens[j].active) =>
              /\ aliens[j].x - aliens[i].x = ALIEN_SPACING * (j - i)
              /\ ~rect_collide(aliens[i].x, aliens[i].y, aliens[i].w, aliens[i].h,
                               aliens[j].x, aliens[j].y, aliens[j].w, aliens[j].h)
    /\ \A b \in ActiveBullets : Cardinality(Hits(bullets[b], aliens)) <= 1
    /\ ~gGameOver => \A b \in FlyingThisTick : Cardinality(Overlaps(b)) <= 1

\* the whole formation, shifted and descended, with a bullet about to hit
C19_Witness ==
    /\ ~gGameOver
    /\ \A i \in AlienIdx : aliens[i].active /\ aliens[i].y > ALIEN_START_Y
    /\ aliens[0].x # ALIEN_START_X
    /\ \E b \in FlyingThisTick : Cardinality(Overlaps(b)) = 1

\* ------------------ C20 --------------------------------
\* C20: the player's velocity is always -PLAYER_SPEED, 0 or +PLAYER_SPEED;
\* left/right key-down sets it to -PLAYER_SPEED/+PLAYER_SPEED; left key-up
\* clears it only if negative, right key-up only if positive, and otherwise
\* changes nothing; no key event changes anything but the velocity.
C20_VelocityControl ==
    /\ [](player.vx \in {-PLAYER_SPEED, 0, PLAYER_SPEED})
    /\ [][KeyDownLeft => player' = [player EXCEPT !.vx = -PLAYER_SPEED]]_vars
    /\ [][KeyDownRight => player' = [player EXCEPT !.vx = PLAYER_SPEED]]_vars
    /\ [][KeyUpLeft =>
              player' = [player EXCEPT !.vx = IF player.vx < 0 THEN 0 ELSE player.vx]]_vars
    /\ [][KeyUpRight =>
              player' = [player EXCEPT !.vx = IF player.vx > 0 THEN 0 ELSE player.vx]]_vars
    /\ [][(KeyDownLeft \/ KeyDownRight \/ KeyUpLeft \/ KeyUpRight) =>
              UNCHANGED <<gGameOver, gLives, gScore, gAlienMoveDir, bullets, aliens>>]_vars

\* the player driven to the right wall, where a left key-up must do nothing
C20_Witness ==
    /\ ~gGameOver
    /\ player.vx = PLAYER_SPEED
    /\ player.x + player.w = WINDOW_WIDTH

\* ------------------ C22 --------------------------------
\* the two rectangles handed to rect_collide
RectA == bullets[0]

RectB == aliens[0]

\* rect_collide applied to a pair of rectangles
Collides(a, b) == rect_collide(a.x, a.y, a.w, a.h, b.x, b.y, b.w, b.h)

\* the unit cells a rectangle covers
Cells(r) == (r.x .. r.x + r.w - 1) \X (r.y .. r.y + r.h - 1)

\* the rectangles meet at most along an edge or in a corner
Touching(a, b) ==
    \/ a.x + a.w = b.x \/ b.x + b.w = a.x
    \/ a.y + a.h = b.y \/ b.y + b.h = a.y

\* C22: rect_collide(A, B) holds iff A and B share area, that is iff
\* A.left < B.right, A.right > B.left, A.top < B.bottom and A.bottom > B.top;
\* rectangles that only touch along an edge or in a corner do not collide; the
\* predicate is symmetric.  The collision loop deactivates the pair exactly
\* when it holds.
C22_RectCollide ==
    /\ [](/\ Collides(RectA, RectB) <=> (Cells(RectA) \cap Cells(RectB) # {})
          /\ Collides(RectA, RectB) <=>
                /\ RectA.x < RectB.x + RectB.w
                /\ RectA.x + RectA.w > RectB.x
                /\ RectA.y < RectB.y + RectB.h
                /\ RectA.y + RectA.h > RectB.y
          /\ Touching(RectA, RectB) => ~Collides(RectA, RectB)
          /\ Collides(RectA, RectB) <=> Collides(RectB, RectA))
    /\ [][CollisionStep =>
              /\ bullets'[0].active <=> (bullets[0].active /\ ~(aliens[0].active /\ Collides(RectA, RectB)))
              /\ aliens'[0].active <=> (aliens[0].active /\ ~(bullets[0].active /\ Collides(RectA, RectB)))]_vars

\* a pair sharing exactly one corner cell, deactivated by the collision loop
C22_Witness ==
    /\ ~RectA.active /\ ~RectB.active /\ gScore = KILL_SCORE
    /\ RectA.x + RectA.w = RectB.x + 1
    /\ RectA.y + RectA.h = RectB.y + 1

\* ------------------ C21 --------------------------------
\* the bullets that this frame's bullet step takes off the screen
CulledThisTick == {b \in ActiveBullets : ~MovedBullets[b].active}

\* C21: no active bullet is ever wholly above the screen (y + h < 0); in a
\* frame of play every active bullet either moves up by BULLET_SPEED or is
\* deactivated, which happens at the latest in the frame that takes it above
\* the screen and otherwise only by hitting an alien or by a wave reset; with
\* frames coming, every active bullet is eventually inactive unless the game
\* ends first.
C21_BulletLifetime ==
    /\ [](\A b \in ActiveBullets : bullets[b].y + bullets[b].h >= 0)
    /\ [][PlayTick =>
              \A b \in ActiveBullets :
                  /\ bullets'[b].active =>
                        /\ bullets'[b].y = bullets[b].y - BULLET_SPEED
                        /\ bullets'[b].x = bullets[b].x
                  /\ bullets[b].y - BULLET_SPEED + bullets[b].h < 0 => ~bullets'[b].active
                  /\ ~bullets'[b].active =>
                        \/ bullets[b].y - BULLET_SPEED + bullets[b].h < 0
                        \/ b \in SpentThisTick
                        \/ AtRowThisTick # {}]_vars
    /\ \A b \in BulletIdx :
          (~gGameOver /\ bullets[b].active) ~> (gGameOver \/ ~bullets[b].active)

\* a slot freed by its bullet leaving the top of the screen
C21_Witness ==
    /\ ~gGameOver
    /\ \E b \in BulletIdx : ~bullets[b].active /\ bullets[b].y + bullets[b].h < 0

\* ------------------ C23 --------------------------------
\* the state a frame of play leads to differs from the present one
TickChanges ==
    LET u == UpdateLogic
    IN  <<VictoryCheck(u.aliens, u.gameOver), u.lives, u.score, u.dir,
          u.player, u.bullets, u.aliens>> # vars

\* C23: every frame of play changes the state, and with frames coming every
\* game in play reaches game-over, whatever keys are pressed and released.
C23_EveryGameEnds ==
    /\ [](~gGameOver => TickChanges)
    /\ (~gGameOver) ~> gGameOver

\* a game that ended after the player had lost a life and fired
C23_Witness ==
    /\ gGameOver
    /\ gLives = PLAYER_LIVES - 1
    /\ ActiveBullets # {}
    /\ player.vx < 0

====
